---- MODULE Spec2Model ----
(***************************************************************************)
(* A model of the text rendering engine of src/main.py: the pydantic       *)
(* style schema (FillModel, StrokeModel, ShadowModel, StyleModel), the     *)
(* colour codec hex_to_rgba, the gradient synthesizer create_gradient,     *)
(* the render pipeline and the command line entry point main.              *)
(*                                                                         *)
(* Strings of the program are sequences of one-character strings, so that  *)
(* the regular expression and the slicing of hex_to_rgba can be computed.  *)
(* Python floats are IEEE-754 binary64 values; the ones the program        *)
(* computes with are non-negative and are modelled exactly, as a mantissa  *)
(* of at most 53 bits and a binary exponent, with round-to-nearest-even    *)
(* after every operation.  A mantissa is a natural number of any size: a   *)
(* little-endian sequence of 16-bit limbs without leading zero limbs.      *)
(***************************************************************************)
EXTENDS Integers, Sequences, FiniteSets, TLC

(***************************************************************************)
(* Natural numbers of any size (<<>> is 0).                                *)
(***************************************************************************)
LimbBits == 16

LimbBase == 2 ^ LimbBits

RECURSIVE LNorm(_)
LNorm(a) == IF a # <<>> /\ a[Len(a)] = 0 THEN LNorm(SubSeq(a, 1, Len(a) - 1)) ELSE a

\* a natural below 2^31
LFromNat(n) == LNorm(<<n % LimbBase, n \div LimbBase>>)

\* the value of a, below 2^31
RECURSIVE LToNat(_)
LToNat(a) == IF a = <<>> THEN 0 ELSE a[1] + LimbBase * LToNat(Tail(a))

\* the number of bits of a natural below 2^16
SmallBitLen(n) == CHOOSE k \in 0..LimbBits : n < 2 ^ k /\ (k = 0 \/ n >= 2 ^ (k - 1))

BitLen(a) == IF a = <<>> THEN 0 ELSE LimbBits * (Len(a) - 1) + SmallBitLen(a[Len(a)])

\* a + b + c
RECURSIVE LAdd(_, _, _)
LAdd(a, b, c) ==
    IF a = <<>> /\ b = <<>>
    THEN (IF c = 0 THEN <<>> ELSE <<c>>)
    ELSE LET x == IF a = <<>> THEN 0 ELSE a[1]
             y == IF b = <<>> THEN 0 ELSE b[1]
             s == x + y + c
         IN  <<s % LimbBase>> \o LAdd(IF a = <<>> THEN <<>> ELSE Tail(a),
                                      IF b = <<>> THEN <<>> ELSE Tail(b),
                                      s \div LimbBase)

\* a - b - c for a >= b + c, as wide as a
RECURSIVE LSub(_, _, _)
LSub(a, b, c) ==
    IF a = <<>>
    THEN <<>>
    ELSE LET y == IF b = <<>> THEN 0 ELSE b[1]
             d == a[1] - y - c
         IN  <<IF d < 0 THEN d + LimbBase ELSE d>>
                 \o LSub(Tail(a), IF b = <<>> THEN <<>> ELSE Tail(b), IF d < 0 THEN 1 ELSE 0)

\* a * k + c for a natural k below 2^15
RECURSIVE LMulSmall(_, _, _)
LMulSmall(a, k, c) ==
    IF a = <<>>
    THEN (IF c = 0 THEN <<>> ELSE <<c>>)
    ELSE LET p == a[1] * k + c
         IN  <<p % LimbBase>> \o LMulSmall(Tail(a), k, p \div LimbBase)

\* quotient (as wide as a) and remainder of a by a natural n, 0 < n < 2^15
RECURSIVE LDivSmall(_, _)
LDivSmall(a, n) ==
    IF a = <<>>
    THEN [q |-> <<>>, r |-> 0]
    ELSE LET p == LDivSmall(Tail(a), n)
             cur == p.r * LimbBase + a[1]
         IN  [q |-> <<cur \div n>> \o p.q, r |-> cur % n]

\* a * 2^k
ShiftLeft(a, k) ==
    IF a = <<>>
    THEN <<>>
    ELSE [j \in 1..(k \div LimbBits) |-> 0] \o LMulSmall(a, 2 ^ (k % LimbBits), 0)

\* a \div 2^k, and whether a nonzero remainder was dropped
ShiftRight(a, k) ==
    LET w == k \div LimbBits
        d == LDivSmall(SubSeq(a, w + 1, Len(a)), 2 ^ (k % LimbBits))
    IN  [q |-> LNorm(d.q),
         sticky |-> d.r # 0 \/ \E j \in 1..w : j <= Len(a) /\ a[j] # 0]

(***************************************************************************)
(* Non-negative binary64 values: m * 2^e, m of at most MantBits bits.      *)
(***************************************************************************)
MantBits == 53

FZero == [m |-> <<>>, e |-> 0]

\* n * 2^e (plus a nonzero tail below n's last bit when sticky), rounded to
\* the nearest value of MantBits bits, ties to even
Round53(n, e, sticky) ==
    IF BitLen(n) <= MantBits
    THEN [m |-> n, e |-> e]
    ELSE LET drop == BitLen(n) - MantBits
             s1   == ShiftRight(n, drop - 1)
             keep == ShiftRight(s1.q, 1).q
             st   == sticky \/ s1.sticky
             up   == s1.q[1] % 2 = 1 /\ (st \/ keep[1] % 2 = 1)
             m2   == IF up THEN LAdd(keep, <<1>>, 0) ELSE keep
         IN  IF BitLen(m2) > MantBits
             THEN [m |-> ShiftRight(m2, 1).q, e |-> e + drop + 1]
             ELSE [m |-> m2, e |-> e + drop]

\* float(i) / float(n) for naturals i and 0 < n < 2^15 : Python's i / n
FDivInt(i, n) ==
    IF i = 0
    THEN FZero
    ELSE LET s == MantBits + 2 + SmallBitLen(n)
             d == LDivSmall(ShiftLeft(LFromNat(i), s), n)
         IN  Round53(LNorm(d.q), 0 - s, d.r # 0)

\* x * float(c) for a natural c below 2^15
FMulInt(x, c) ==
    IF c = 0 \/ x.m = <<>>
    THEN FZero
    ELSE Round53(LMulSmall(x.m, c, 0), x.e, FALSE)

\* x + y
FAdd(x, y) ==
    IF x.m = <<>> THEN y
    ELSE IF y.m = <<>> THEN x
    ELSE LET e == IF x.e < y.e THEN x.e ELSE y.e
         IN  Round53(LAdd(ShiftLeft(x.m, x.e - e), ShiftLeft(y.m, y.e - e), 0), e, FALSE)

\* 1 - x for 0 <= x <= 1
FOneMinus(x) ==
    IF x.m = <<>>
    THEN [m |-> <<1>>, e |-> 0]
    ELSE LET d == LNorm(LSub(ShiftLeft(<<1>>, 0 - x.e), x.m, 0))
         IN  IF d = <<>> THEN FZero ELSE Round53(d, x.e, FALSE)

\* int(x), and the cast of an in-range x to uint8: truncation
FTrunc(x) ==
    IF x.m = <<>> THEN 0
    ELSE IF x.e >= 0 THEN LToNat(ShiftLeft(x.m, x.e))
    ELSE LToNat(ShiftRight(x.m, 0 - x.e).q)

FOne == [m |-> <<1>>, e |-> 0]

(***************************************************************************)
(* Colour codec.                                                           *)
(***************************************************************************)
\* the digit values int(s, 16) accepts among the characters of the model
HexDigitValue(c) ==
    CASE c = "0" -> 0 [] c = "1" -> 1 [] c = "2" -> 2 [] c = "3" -> 3
      [] c = "4" -> 4 [] c = "5" -> 5 [] c = "6" -> 6 [] c = "7" -> 7
      [] c = "8" -> 8 [] c = "9" -> 9
      [] c = "a" -> 10 [] c = "b" -> 11 [] c = "c" -> 12
      [] c = "d" -> 13 [] c = "e" -> 14 [] c = "f" -> 15
      [] c = "A" -> 10 [] c = "B" -> 11 [] c = "C" -> 12
      [] c = "D" -> 13 [] c = "E" -> 14 [] c = "F" -> 15
      [] OTHER -> -1

\* s.lstrip(ch)
RECURSIVE Lstrip(_, _)
Lstrip(s, ch) == IF s # <<>> /\ s[1] = ch THEN Lstrip(Tail(s), ch) ELSE s

\* s[a:b] for 0 <= a <= b
Slice(s, a, b) ==
    IF a >= Len(s) THEN <<>> ELSE SubSeq(s, a + 1, IF b < Len(s) THEN b ELSE Len(s))

\* int(s, 16); -1 stands for ValueError
RECURSIVE IntBase16(_)
IntBase16(s) ==
    IF s = <<>> \/ \E k \in 1..Len(s) : HexDigitValue(s[k]) < 0
    THEN -1
    ELSE IF Len(s) = 1
    THEN HexDigitValue(s[1])
    ELSE 16 * IntBase16(SubSeq(s, 1, Len(s) - 1)) + HexDigitValue(s[Len(s)])

\* hex_to_rgba(hex_color, opacity); ok is FALSE when it raises
\* as AlphaOf, with round(255 * opacity) for int(255 * opacity)
AlphaRounded(opacity) == FTrunc(FAdd(FMulInt(opacity, 255), FDivInt(1, 2)))

AlphaOf(opacity) == FTrunc(FMulInt(opacity, 255))

hex_to_rgba(hex_color, opacity) ==
    LET h == Lstrip(hex_color, "#")
        r == IntBase16(Slice(h, 0, 2))
        g == IntBase16(Slice(h, 2, 4))
        b == IntBase16(Slice(h, 4, 6))
    IN  IF r < 0 \/ g < 0 \/ b < 0
        THEN [ok |-> FALSE, value |-> <<>>]
        ELSE [ok |-> TRUE, value |-> <<r, g, b, AlphaOf(opacity)>>]

(***************************************************************************)
(* Gradient synthesizer.                                                   *)
(***************************************************************************)
\* as GradientRatio, with the last index reaching ratio 1
GradientRatioInclusive(i, n) == IF n = 1 THEN FZero ELSE FDivInt(i, n - 1)

\* ratio = i / N
GradientRatio(i, n) == FDivInt(i, n)

\* color = (1 - ratio) * c1 + ratio * c2, stored into the uint8 array
GradientColor(i, n, c1, c2) ==
    LET ratio == GradientRatio(i, n)
        rest  == FOneMinus(ratio)
    IN  [ch \in 1..4 |-> FTrunc(FAdd(FMulInt(rest, c1[ch]), FMulInt(ratio, c2[ch])))]

\* create_gradient(size, colors, direction): colors is a sequence of strings
\* or the string "None"; ok is FALSE when it raises
create_gradient(size, colors, direction) ==
    IF colors = "None" \/ Len(colors) < 2
    THEN [ok |-> FALSE, width |-> 0, height |-> 0, pixels |-> <<>>]
    ELSE LET width  == size[1]
             height == size[2]
             c1 == hex_to_rgba(colors[1], FOne)
             c2 == hex_to_rgba(colors[2], FOne)
             n  == IF direction = "vertical" THEN height ELSE width
             line == [i \in 0..(n - 1) |-> GradientColor(i, n, c1.value, c2.value)]
         IN  IF ~c1.ok \/ ~c2.ok
             THEN [ok |-> FALSE, width |-> 0, height |-> 0, pixels |-> <<>>]
             ELSE [ok |-> TRUE, width |-> width, height |-> height,
                   pixels |-> [p \in (0..(height - 1)) \X (0..(width - 1)) |->
                                  IF direction = "vertical" THEN line[p[1]] ELSE line[p[2]]]]

(***************************************************************************)
(* Style schema.  A JSON object is a function from its keys; an optional   *)
(* field that is absent (or null) is a key that is not in the domain.  A   *)
(* float field holds its value in units of 1/FloatUnit; an error is the    *)
(* location pydantic reports and the kind of the error.                    *)
(***************************************************************************)
FloatUnit == 100

\* re.match(HEX_COLOR_REGEX, v): Python's $ also matches before a final newline
HexColorMatch(v) ==
    /\ Len(v) = 7 \/ (Len(v) = 8 /\ v[8] = "\n")
    /\ v[1] = "#"
    /\ \A k \in 2..7 : HexDigitValue(v[k]) >= 0

Err(prefix, k, kind) == [loc |-> Append(prefix, k), type |-> kind]

\* the required fields that are absent
Missing(o, required, prefix) == {Err(prefix, k, "missing") : k \in required \ DOMAIN o}

\* ConfigDict(extra="forbid")
ExtraForbidden(o, known, prefix) ==
    {Err(prefix, k, "extra_forbidden") : k \in (DOMAIN o) \ known}

\* as FillExtra, with FillModel lacking extra="forbid"
FillExtraIgnored(o, prefix) == {}

FillExtra(o, prefix) == ExtraForbidden(o, {"type", "color", "colors", "direction"}, prefix)

\* FillModel.validate_color: `if v and not re.match(...)`
FillColorField(v) == v = <<>> \/ HexColorMatch(v)

\* FillModel.validate_colors: `if v: for color in v: ...`
FillColorsField(v) == \A i \in 1..Len(v) : HexColorMatch(v[i])

\* StrokeModel.validate_color, ShadowModel.validate_color
ColorField(v) == HexColorMatch(v)

StrokeWidthField(v) == v >= 0 /\ v <= 100

BlurField(v) == v >= 0 /\ v <= 200

EffectOpacityField(v) == v >= 0 /\ v <= 1 * FloatUnit

FontSizeField(v) == v > 0 /\ v <= 500

LetterSpacingField(v) == v >= 0 /\ v <= 100

\* as LineHeightField, with ge=0 for gt=0
LineHeightFieldInclusive(v) == v >= 0 /\ v <= 5 * FloatUnit

LineHeightField(v) == v > 0 /\ v <= 5 * FloatUnit

RotationField(v) == v >= (0 - 360) * FloatUnit /\ v <= 360 * FloatUnit

OpacityField(v) == v >= 0 /\ v <= 1 * FloatUnit

Violation(o, k, ok, prefix, kind) == IF ok THEN {} ELSE {Err(prefix, k, kind)}

FillModel(o, prefix) ==
    Missing(o, {"type"}, prefix)
    \cup FillExtra(o, prefix)
    \cup (IF "type" \in DOMAIN o
          THEN Violation(o, "type", o.type \in {"solid", "gradient"}, prefix, "literal_error")
          ELSE {})
    \cup (IF "color" \in DOMAIN o
          THEN Violation(o, "color", FillColorField(o.color), prefix, "value_error")
          ELSE {})
    \cup (IF "colors" \in DOMAIN o
          THEN Violation(o, "colors", FillColorsField(o.colors), prefix, "value_error")
          ELSE {})
    \cup (IF "direction" \in DOMAIN o
          THEN Violation(o, "direction", o.direction \in {"vertical", "horizontal"},
                         prefix, "literal_error")
          ELSE {})

StrokeModel(o, prefix) ==
    Missing(o, {"enabled", "width", "color"}, prefix)
    \cup ExtraForbidden(o, {"enabled", "width", "color"}, prefix)
    \cup (IF "width" \in DOMAIN o
          THEN Violation(o, "width", StrokeWidthField(o.width), prefix, "range")
          ELSE {})
    \cup (IF "color" \in DOMAIN o
          THEN Violation(o, "color", ColorField(o.color), prefix, "value_error")
          ELSE {})

ShadowModel(o, prefix) ==
    Missing(o, {"enabled", "offset", "blur", "color", "opacity"}, prefix)
    \cup ExtraForbidden(o, {"enabled", "offset", "blur", "color", "opacity"}, prefix)
    \cup (IF "blur" \in DOMAIN o
          THEN Violation(o, "blur", BlurField(o.blur), prefix, "range")
          ELSE {})
    \cup (IF "color" \in DOMAIN o
          THEN Violation(o, "color", ColorField(o.color), prefix, "value_error")
          ELSE {})
    \cup (IF "opacity" \in DOMAIN o
          THEN Violation(o, "opacity", EffectOpacityField(o.opacity), prefix, "range")
          ELSE {})

StyleKeys ==
    {"font_path", "font_size", "center", "fill", "stroke", "shadow", "outer_glow",
     "inner_shadow", "letter_spacing", "line_height", "rotation", "opacity"}

\* StyleModel(**style_data): the errors of one validation pass, all collected
StyleModel(o) ==
    Missing(o, StyleKeys, <<>>)
    \cup ExtraForbidden(o, StyleKeys, <<>>)
    \cup (IF "font_size" \in DOMAIN o
          THEN Violation(o, "font_size", FontSizeField(o.font_size), <<>>, "range")
          ELSE {})
    \cup (IF "fill" \in DOMAIN o THEN FillModel(o.fill, <<"fill">>) ELSE {})
    \cup (IF "stroke" \in DOMAIN o THEN StrokeModel(o.stroke, <<"stroke">>) ELSE {})
    \cup (IF "shadow" \in DOMAIN o THEN ShadowModel(o.shadow, <<"shadow">>) ELSE {})
    \cup (IF "outer_glow" \in DOMAIN o
          THEN ShadowModel(o.outer_glow, <<"outer_glow">>) ELSE {})
    \cup (IF "inner_shadow" \in DOMAIN o
          THEN ShadowModel(o.inner_shadow, <<"inner_shadow">>) ELSE {})
    \cup (IF "letter_spacing" \in DOMAIN o
          THEN Violation(o, "letter_spacing", LetterSpacingField(o.letter_spacing),
                         <<>>, "range")
          ELSE {})
    \cup (IF "line_height" \in DOMAIN o
          THEN Violation(o, "line_height", LineHeightField(o.line_height), <<>>, "range")
          ELSE {})
    \cup (IF "rotation" \in DOMAIN o
          THEN Violation(o, "rotation", RotationField(o.rotation), <<>>, "range")
          ELSE {})
    \cup (IF "opacity" \in DOMAIN o
          THEN Violation(o, "opacity", OpacityField(o.opacity), <<>>, "range")
          ELSE {})

(***************************************************************************)
(* Inputs.                                                                 *)
(***************************************************************************)
Black == <<"#", "0", "0", "0", "0", "0", "0">>

White == <<"#", "f", "f", "f", "f", "f", "f">>

Red == <<"#", "F", "F", "0", "0", "0", "0">>

Pink == <<"#", "F", "F", "0", "0", "A", "A">>

Navy == <<"#", "0", "1", "0", "0", "7", "f">>

Lime == <<"#", "7", "F", "f", "e", "0", "0">>

WellFormedColors == {Black, White, Pink, Navy, Lime}

\* strings a colour field of style.json may hold
ColorSamples ==
    { <<>>, Pink, Pink \o <<"\n">>, Tail(Pink), SubSeq(Pink, 1, 6), Pink \o <<"0">>,
      <<"#", "g", "g", "0", "0", "a", "a">> }

\* lists fill.colors may hold
ColorsSamples ==
    { <<>>, <<Black>>, <<Black, White>>, <<Navy, Lime, Pink>>, <<Black, <<>>>>,
      <<Tail(Pink), White>>, <<Black, White \o <<"\n">>>> }

MaxDim == 7

MaxDen == 10

MaxEdits == 2

Effects == {"shadow", "outer_glow", "inner_shadow"}

Effect ==
    [enabled |-> FALSE, offset |-> <<2, 2>>, blur |-> 4, color |-> Black,
     opacity |-> FloatUnit \div 2]

\* a valid style.json: solid red text, no stroke
BaseStyle ==
    [font_path |-> "font.ttf", font_size |-> 48, center |-> <<100, 100>>,
     fill |-> [type |-> "solid", color |-> Red],
     stroke |-> [enabled |-> FALSE, width |-> 2, color |-> Black],
     shadow |-> Effect, outer_glow |-> Effect, inner_shadow |-> Effect,
     letter_spacing |-> 0, line_height |-> FloatUnit, rotation |-> 0,
     opacity |-> FloatUnit]

SetKey(o, k, v) == [x \in (DOMAIN o) \cup {k} |-> IF x = k THEN v ELSE o[x]]

DelKey(o, k) == [x \in (DOMAIN o) \ {k} |-> o[x]]

Objects == {"top", "fill", "stroke"} \cup Effects

HasObject(d, obj) == obj = "top" \/ obj \in DOMAIN d

ObjectOf(d, obj) == IF obj = "top" THEN d ELSE d[obj]

SetIn(d, obj, k, v) == IF obj = "top" THEN SetKey(d, k, v) ELSE SetKey(d, obj, SetKey(d[obj], k, v))

DelIn(d, obj, k) == IF obj = "top" THEN DelKey(d, k) ELSE SetKey(d, obj, DelKey(d[obj], k))

\* the numeric fields, and values around the bounds of each
NumberFields ==
    {<<"top", "font_size">>, <<"top", "letter_spacing">>, <<"top", "line_height">>,
     <<"top", "rotation">>, <<"top", "opacity">>, <<"stroke", "width">>}
    \cup {<<e, "blur">> : e \in Effects} \cup {<<e, "opacity">> : e \in Effects}

NumberSamples(k) ==
    CASE k = "font_size" -> {0, 1, 500, 501}
      [] k = "letter_spacing" -> {-1, 0, 100, 101}
      [] k = "width" -> {-1, 0, 100, 101}
      [] k = "blur" -> {-1, 0, 200, 201}
      [] k = "opacity" -> {-1, 0, FloatUnit, FloatUnit + 1}
      [] k = "rotation" ->
            {(0 - 360) * FloatUnit - 1, (0 - 360) * FloatUnit, 360 * FloatUnit,
             360 * FloatUnit + 1}
      [] k = "line_height" -> {-1, 0, 1, 5 * FloatUnit, 5 * FloatUnit + 1}

ColorFields == {<<"fill", "color">>, <<"stroke", "color">>} \cup {<<e, "color">> : e \in Effects}

(***************************************************************************)
(* State.                                                                  *)
(***************************************************************************)
VARIABLES
    hex_color, opacity, rgba,            \* a call of hex_to_rgba and its result
    size, colors, direction, gradient,   \* a call of create_gradient and its result
    style_data, edits, result,           \* style.json and its validation
    pc, exc, exit_code,                  \* main: position, exception in flight, exit status
    steps, failed_step,                  \* the pipeline steps completed, the one that raised
    image, bbox, origin, text_layer,     \* render's locals
    output_file                          \* the file at the output path

codecVars == <<hex_color, opacity, rgba>>

gradientVars == <<size, colors, direction, gradient>>

styleVars == <<style_data, edits, result>>

mainVars ==
    <<pc, exc, exit_code, steps, failed_step, image, bbox, origin, text_layer, output_file>>

vars == <<codecVars, gradientVars, styleVars, mainVars>>

NoCall == [done |-> FALSE, ok |-> FALSE, value |-> <<>>]

NoGradient == [done |-> FALSE, ok |-> FALSE, width |-> 0, height |-> 0, pixels |-> <<>>]

NoResult == [done |-> FALSE, errors |-> {}]

CodecIdle == hex_color = <<>> /\ opacity = <<0, 1>> /\ rgba = NoCall

GradientIdle == size = <<0, 0>> /\ colors = <<>> /\ direction = "None" /\ gradient = NoGradient

StyleIdle == style_data = BaseStyle /\ edits = 0 /\ result = NoResult

NoImage == [size |-> <<0, 0>>, layers |-> <<>>, rotation |-> 0]

MainIdle ==
    /\ pc = "parse_args" /\ exc = "none" /\ exit_code = -1
    /\ steps = <<>> /\ failed_step = "none"
    /\ image = NoImage /\ bbox = <<0, 0, 0, 0>> /\ origin = <<0, 0>> /\ text_layer = <<>>
    /\ output_file = "absent"

(***************************************************************************)
(* hex_to_rgba on every well-formed colour and opacity k/d.                *)
(***************************************************************************)
InitCodec ==
    /\ hex_color \in WellFormedColors
    /\ opacity \in {<<k, d>> \in (0..MaxDen) \X (1..MaxDen) : k <= d}
    /\ rgba = NoCall
    /\ GradientIdle /\ StyleIdle /\ MainIdle

CallHexToRgba ==
    /\ ~rgba.done
    /\ rgba' = [done |-> TRUE] @@ hex_to_rgba(hex_color, FDivInt(opacity[1], opacity[2]))
    /\ UNCHANGED <<hex_color, opacity, gradientVars, styleVars, mainVars>>

NextCodec == CallHexToRgba

SpecCodec == InitCodec /\ [][NextCodec]_vars

(***************************************************************************)
(* create_gradient on small rasters.                                       *)
(***************************************************************************)
InitGradient ==
    /\ size \in (1..MaxDim) \X (1..MaxDim)
    /\ colors \in WellFormedColors \X WellFormedColors
    /\ direction \in {"vertical", "horizontal"}
    /\ gradient = NoGradient
    /\ CodecIdle /\ StyleIdle /\ MainIdle

CallCreateGradient ==
    /\ ~gradient.done
    /\ gradient' = [done |-> TRUE] @@ create_gradient(size, colors, direction)
    /\ UNCHANGED <<size, colors, direction, codecVars, styleVars, mainVars>>

NextGradient == CallCreateGradient

SpecGradient == InitGradient /\ [][NextGradient]_vars

(***************************************************************************)
(* Validation of a style.json that differs from a valid one in at most     *)
(* MaxEdits places.                                                        *)
(***************************************************************************)
InitStyle == StyleIdle /\ CodecIdle /\ GradientIdle /\ MainIdle

Editing == edits < MaxEdits /\ ~result.done

Edit(d) ==
    /\ style_data' = d
    /\ edits' = edits + 1
    /\ UNCHANGED <<result, codecVars, gradientVars, mainVars>>

EditNumber ==
    /\ Editing
    /\ \E f \in NumberFields : \E v \in NumberSamples(f[2]) :
          HasObject(style_data, f[1]) /\ Edit(SetIn(style_data, f[1], f[2], v))

EditColor ==
    /\ Editing
    /\ \E f \in ColorFields : \E v \in ColorSamples :
          HasObject(style_data, f[1]) /\ Edit(SetIn(style_data, f[1], f[2], v))

EditFill ==
    /\ Editing
    /\ "fill" \in DOMAIN style_data
    /\ \/ \E t \in {"solid", "gradient", "radial"} : Edit(SetIn(style_data, "fill", "type", t))
       \/ \E v \in ColorsSamples : Edit(SetIn(style_data, "fill", "colors", v))
       \/ \E v \in {"vertical", "horizontal", "diagonal"} :
             Edit(SetIn(style_data, "fill", "direction", v))

RemoveKey ==
    /\ Editing
    /\ \E obj \in Objects :
          /\ HasObject(style_data, obj)
          /\ \E k \in DOMAIN ObjectOf(style_data, obj) : Edit(DelIn(style_data, obj, k))

AddUnknownKey ==
    /\ Editing
    /\ \E obj \in Objects :
          HasObject(style_data, obj) /\ Edit(SetIn(style_data, obj, "glow_radius", 3))

Validate ==
    /\ ~result.done
    /\ result' = [done |-> TRUE, errors |-> StyleModel(style_data)]
    /\ UNCHANGED <<style_data, edits, codecVars, gradientVars, mainVars>>

NextStyle == EditNumber \/ EditColor \/ EditFill \/ RemoveKey \/ AddUnknownKey \/ Validate

SpecStyle == InitStyle /\ [][NextStyle]_vars

(***************************************************************************)
(* main and render, one step at a time.  What the file system, the         *)
(* imaging library and the terminal answer is chosen at the step that      *)
(* asks.                                                                   *)
(***************************************************************************)
MaxBox == 3

Centers == {<<100, 100>>, <<0, 0>>, <<-3, 7>>}

ImageSizes == {<<1, 2>>, <<2, 1>>}

\* what draw.textbbox((0, 0), text, font=font) may return
BBoxes ==
    {<<o[1], o[2], o[1] + w, o[2] + h>> :
        o \in {<<0, 0>>, <<1, 3>>}, w \in 0..MaxBox, h \in 0..MaxBox}

GradientFill == [type |-> "gradient", colors |-> <<Navy, Lime>>, direction |-> "vertical"]

\* the style files main is run on: valid ones, ones validation rejects, and
\* ones it accepts that render cannot draw
StyleFiles ==
    << BaseStyle,
       SetKey(SetKey(SetIn(BaseStyle, "stroke", "enabled", TRUE), "rotation", 90 * FloatUnit),
              "opacity", FloatUnit \div 2),
       SetKey(BaseStyle, "fill", GradientFill),
       SetIn(SetKey(BaseStyle, "fill", GradientFill), "stroke", "enabled", TRUE),
       SetKey(BaseStyle, "fill", [type |-> "gradient", colors |-> <<Black>>]),
       DelIn(BaseStyle, "fill", "color"),
       SetIn(BaseStyle, "fill", "color", <<>>),
       SetKey(BaseStyle, "font_size", 0),
       SetIn(BaseStyle, "stroke", "glow_radius", 3),
       SetIn(BaseStyle, "fill", "color", Tail(Pink)) >>

RenderOrder ==
    <<"validate", "font_check", "load_image", "load_font", "shape", "measure", "fill",
      "stroke", "composite", "rotate">>

\* as AfterRaise, with a failure of the stroke pass caught inside render
AfterRaiseStrokeCaught(step) == IF step = "stroke" THEN "composite" ELSE "raised"

\* where control goes when a step raises: out of render and main's try block
AfterRaise(step) == "raised"

\* as ExitStatus, with the handler of Exception printing without sys.exit(1)
ExitStatusNoExit(e, code) ==
    IF e = "SystemExit" THEN code
    ELSE IF e = "ValidationError" THEN 1
    ELSE 0

\* the exit status once an exception left the try block: SystemExit is no
\* Exception and passes both handlers; the handlers call sys.exit(1)
ExitStatus(e, code) ==
    IF e = "SystemExit" THEN code
    ELSE IF e = "ValidationError" THEN 1
    ELSE 1

\* as Origin, with the floor division applied to the whole difference
OriginFloorOfDifference(center, box) ==
    <<(2 * center[1] - (box[3] - box[1])) \div 2, (2 * center[2] - (box[4] - box[2])) \div 2>>

\* x = style.center[0] - w // 2 ; y = style.center[1] - h // 2
Origin(center, box) ==
    <<center[1] - ((box[3] - box[1]) \div 2), center[2] - ((box[4] - box[2]) \div 2)>>

Done(step, next) ==
    /\ pc' = next
    /\ steps' = Append(steps, step)
    /\ UNCHANGED <<exc, failed_step, exit_code>>

Raise(step, e, code) ==
    /\ pc' = AfterRaise(step)
    /\ exc' = e
    /\ exit_code' = code
    /\ failed_step' = step
    /\ UNCHANGED steps

InitMain ==
    /\ MainIdle /\ StyleIdle /\ CodecIdle /\ GradientIdle

\* parser.parse_args(): argparse exits with status 2 on a usage error
ParseArgs ==
    /\ pc = "parse_args"
    /\ \E ok \in BOOLEAN :
          IF ok THEN Done("parse_args", "check_image")
                ELSE Raise("parse_args", "SystemExit", 2)
    /\ UNCHANGED <<codecVars, gradientVars, styleVars, image, bbox, origin, text_layer,
                   output_file>>

CheckImage ==
    /\ pc = "check_image"
    /\ \E exists \in BOOLEAN :
          IF exists THEN Done("check_image", "check_style")
                    ELSE Raise("check_image", "SystemExit", 1)
    /\ UNCHANGED <<codecVars, gradientVars, styleVars, image, bbox, origin, text_layer,
                   output_file>>

CheckStyle ==
    /\ pc = "check_style"
    /\ \E exists \in BOOLEAN :
          IF exists THEN Done("check_style", "load_json")
                    ELSE Raise("check_style", "SystemExit", 1)
    /\ UNCHANGED <<codecVars, gradientVars, styleVars, image, bbox, origin, text_layer,
                   output_file>>

\* json.load(f), then the centre the file gives
LoadJson ==
    /\ pc = "load_json"
    /\ \/ /\ \E i \in DOMAIN StyleFiles : \E c \in Centers \cup {<<7>>} :
               style_data' = SetKey(StyleFiles[i], "center", c)
          /\ Done("load_json", "validate")
       \/ /\ Raise("load_json", "JSONDecodeError", exit_code)
          /\ UNCHANGED style_data
    /\ UNCHANGED <<codecVars, gradientVars, edits, result, image, bbox, origin, text_layer,
                   output_file>>

\* style = StyleModel(**style_data)
ValidateStyle ==
    /\ pc = "validate"
    /\ result' = [done |-> TRUE, errors |-> StyleModel(style_data)]
    /\ IF StyleModel(style_data) = {}
       THEN Done("validate", "font_check")
       ELSE Raise("validate", "ValidationError", exit_code)
    /\ UNCHANGED <<codecVars, gradientVars, style_data, edits, image, bbox, origin,
                   text_layer, output_file>>

\* if not Path(style.font_path).exists(): raise FileNotFoundError
FontCheck ==
    /\ pc = "font_check"
    /\ \E exists \in BOOLEAN :
          IF exists THEN Done("font_check", "load_image")
                    ELSE Raise("font_check", "FileNotFoundError", exit_code)
    /\ UNCHANGED <<codecVars, gradientVars, styleVars, image, bbox, origin, text_layer,
                   output_file>>

\* Image.open(image_path).convert("RGBA"), the transparent text layer
LoadImage ==
    /\ pc = "load_image"
    /\ \/ /\ \E sz \in ImageSizes : image' = [NoImage EXCEPT !.size = sz]
          /\ Done("load_image", "load_font")
       \/ /\ Raise("load_image", "UnidentifiedImageError", exit_code)
          /\ UNCHANGED image
    /\ UNCHANGED <<codecVars, gradientVars, styleVars, bbox, origin, text_layer, output_file>>

\* ImageFont.truetype(style.font_path, style.font_size)
LoadFont ==
    /\ pc = "load_font"
    /\ \E ok \in BOOLEAN :
          IF ok THEN Done("load_font", "shape")
                ELSE Raise("load_font", "OSError", exit_code)
    /\ UNCHANGED <<codecVars, gradientVars, styleVars, image, bbox, origin, text_layer,
                   output_file>>

\* text = reshape_text(text)
Shape ==
    /\ pc = "shape"
    /\ Done("shape", "measure")
    /\ UNCHANGED <<codecVars, gradientVars, styleVars, image, bbox, origin, text_layer,
                   output_file>>

\* the bounding box of the text and the draw origin
Measure ==
    /\ pc = "measure"
    /\ \E b \in BBoxes :
          /\ bbox' = b
          /\ IF Len(style_data.center) >= 2
             THEN origin' = Origin(style_data.center, b) /\ Done("measure", "fill")
             ELSE UNCHANGED origin /\ Raise("measure", "IndexError", exit_code)
    /\ UNCHANGED <<codecVars, gradientVars, styleVars, image, text_layer, output_file>>

\* the fill colour of a solid fill; ok is FALSE when hex_to_rgba raises
SolidColor(style) ==
    IF "color" \in DOMAIN style.fill
    THEN hex_to_rgba(style.fill.color, FDivInt(style.opacity, FloatUnit))
    ELSE [ok |-> FALSE, value |-> <<>>]

\* the gradient of a gradient fill; ok is FALSE when create_gradient raises
GradientOf(style, sz) ==
    create_gradient(sz,
                    IF "colors" \in DOMAIN style.fill THEN style.fill.colors ELSE "None",
                    IF "direction" \in DOMAIN style.fill THEN style.fill.direction ELSE "None")

Fill ==
    /\ pc = "fill"
    /\ \E drawn \in BOOLEAN :
          IF style_data.fill.type = "solid"
          THEN IF drawn /\ SolidColor(style_data).ok
               THEN /\ text_layer' =
                          Append(text_layer,
                                 [op |-> "text", xy |-> origin,
                                  fill |-> SolidColor(style_data).value])
                    /\ Done("fill", "stroke")
               ELSE UNCHANGED text_layer /\ Raise("fill", "Exception", exit_code)
          ELSE IF drawn /\ GradientOf(style_data, image.size).ok
               THEN /\ text_layer' =
                          Append(text_layer,
                                 [op |-> "mask", xy |-> origin,
                                  fill |-> GradientOf(style_data, image.size).pixels])
                    /\ Done("fill", "stroke")
               ELSE UNCHANGED text_layer /\ Raise("fill", "Exception", exit_code)
    /\ UNCHANGED <<codecVars, gradientVars, styleVars, image, bbox, origin, output_file>>

Stroke ==
    /\ pc = "stroke"
    /\ IF style_data.stroke.enabled
       THEN \E drawn \in BOOLEAN :
               IF drawn
               THEN /\ text_layer' =
                          Append(text_layer,
                                 [op |-> "stroke", xy |-> origin,
                                  fill |-> hex_to_rgba(style_data.stroke.color, FOne).value,
                                  width |-> style_data.stroke.width])
                    /\ Done("stroke", "composite")
               ELSE UNCHANGED text_layer /\ Raise("stroke", "Exception", exit_code)
       ELSE UNCHANGED text_layer /\ Done("stroke", "composite")
    /\ UNCHANGED <<codecVars, gradientVars, styleVars, image, bbox, origin, output_file>>

\* image.alpha_composite(text_layer)
Composite ==
    /\ pc = "composite"
    /\ image' = [image EXCEPT !.layers = text_layer]
    /\ Done("composite", "rotate")
    /\ UNCHANGED <<codecVars, gradientVars, styleVars, bbox, origin, text_layer, output_file>>

\* if style.rotation != 0: image = image.rotate(style.rotation, expand=True)
Rotate ==
    /\ pc = "rotate"
    /\ image' = IF style_data.rotation # 0
                THEN [image EXCEPT !.rotation = style_data.rotation]
                ELSE image
    /\ Done("rotate", "persist")
    /\ UNCHANGED <<codecVars, gradientVars, styleVars, bbox, origin, text_layer, output_file>>

\* image.save(output_path): it may refuse before opening the file, or fail
\* while writing it
Persist ==
    /\ pc = "persist"
    /\ \/ output_file' = "written" /\ Done("persist", "report")
       \/ UNCHANGED output_file /\ Raise("persist", "ValueError", exit_code)
       \/ output_file' \in {"absent", "partial"} /\ Raise("persist", "OSError", exit_code)
    /\ UNCHANGED <<codecVars, gradientVars, styleVars, image, bbox, origin, text_layer>>

\* print("Rendered successfully", output_path): the arrow may not be
\* encodable on the terminal
Report ==
    /\ pc = "report"
    /\ \E ok \in BOOLEAN :
          IF ok THEN Done("report", "returned")
                ELSE Raise("report", "UnicodeEncodeError", exit_code)
    /\ UNCHANGED <<codecVars, gradientVars, styleVars, image, bbox, origin, text_layer,
                   output_file>>

\* main returns: the interpreter exits with status 0
Return ==
    /\ pc = "returned"
    /\ pc' = "exited"
    /\ exit_code' = 0
    /\ UNCHANGED <<exc, steps, failed_step, codecVars, gradientVars, styleVars, image, bbox,
                   origin, text_layer, output_file>>

\* the exception leaves the try block
Unwind ==
    /\ pc = "raised"
    /\ pc' = "exited"
    /\ exit_code' = ExitStatus(exc, exit_code)
    /\ UNCHANGED <<exc, steps, failed_step, codecVars, gradientVars, styleVars, image, bbox,
                   origin, text_layer, output_file>>

NextMain ==
    \/ ParseArgs \/ CheckImage \/ CheckStyle \/ LoadJson \/ ValidateStyle
    \/ FontCheck \/ LoadImage \/ LoadFont \/ Shape \/ Measure \/ Fill \/ Stroke
    \/ Composite \/ Rotate \/ Persist \/ Report \/ Return \/ Unwind

SpecMain == InitMain /\ [][NextMain]_vars

Spec == SpecMain
(***************************************************************************)
(* Properties.                                                             *)
(***************************************************************************)
Range(q) == {q[i] : i \in DOMAIN q}

IsPrefix(a, b) == Len(a) <= Len(b) /\ SubSeq(b, 1, Len(a)) = a

Preflight == <<"parse_args", "check_image", "check_style", "load_json">>

BeforePersist == Preflight \o RenderOrder

\* C1: the output file is written only by the last pipeline step, after
\* every earlier step (validate, font check, image load, shape, measure,
\* fill, stroke, composite, rotate) completed in that order; once an earlier
\* step has failed, the persist step is never reached and no output file
\* exists.
C1_PersistLast ==
    /\ output_file # "absent" => IsPrefix(BeforePersist, steps) /\ failed_step \notin Range(BeforePersist)
    /\ pc \in {"persist", "report", "returned"} => IsPrefix(BeforePersist, steps)
    /\ failed_step \in Range(BeforePersist) =>
          /\ output_file = "absent"
          /\ pc \in {"raised", "exited"}
          /\ "persist" \notin Range(steps)

C1_Witness ==
    /\ pc = "exited" /\ failed_step = "stroke" /\ output_file = "absent"
    /\ Len(text_layer) = 1

Loc(f) == IF f[1] = "top" THEN <<f[2]>> ELSE <<f[1], f[2]>>

Present(f) == HasObject(style_data, f[1]) /\ f[2] \in DOMAIN ObjectOf(style_data, f[1])

ValueOf(f) == ObjectOf(style_data, f[1])[f[2]]

ErrAt(loc) == \E e \in result.errors : e.loc = loc

HexChars ==
    {"0", "1", "2", "3", "4", "5", "6", "7", "8", "9", "a", "b", "c", "d", "e", "f",
     "A", "B", "C", "D", "E", "F"}

\* '#' followed by exactly six hexadecimal digits
StrictHex(v) == Len(v) = 7 /\ v[1] = "#" /\ \A k \in 2..7 : v[k] \in HexChars

\* C3: a colour field is accepted by validation if and only if its value is
\* '#' followed by exactly six hexadecimal digits (every colour field, and
\* every element of fill.colors).
C3_HexIff ==
    result.done =>
        /\ \A f \in ColorFields : Present(f) => (~ErrAt(Loc(f)) <=> StrictHex(ValueOf(f)))
        /\ Present(<<"fill", "colors">>) =>
              (~ErrAt(<<"fill", "colors">>) <=>
                  \A i \in 1..Len(style_data.fill.colors) : StrictHex(style_data.fill.colors[i]))

\* C4: every descriptor validation accepts has a gradient fill with exactly
\* two colours and a direction, or a solid fill with a colour.
C4_FillVariant ==
    result.done /\ result.errors = {} =>
        LET f == style_data.fill
        IN  /\ f.type = "gradient" =>
                  /\ "colors" \in DOMAIN f /\ Len(f.colors) = 2
                  /\ "direction" \in DOMAIN f
            /\ f.type = "solid" => "color" \in DOMAIN f

InRange(k, v) ==
    CASE k = "font_size" -> 1 <= v /\ v <= 500
      [] k = "width" -> 0 <= v /\ v <= 100
      [] k = "letter_spacing" -> 0 <= v /\ v <= 100
      [] k = "blur" -> 0 <= v /\ v <= 200
      [] k = "opacity" -> 0 <= v /\ v <= FloatUnit
      [] k = "rotation" -> (0 - 360) * FloatUnit <= v /\ v <= 360 * FloatUnit
      [] k = "line_height" -> 0 < v /\ v <= 5 * FloatUnit

\* C5: validation accepts a numeric field exactly when its value is within
\* the field's range, the bounds included (the lower bound of line_height
\* excluded); a value out of range fails validation whatever the other
\* fields hold.
C5_RangeBoundaries ==
    result.done =>
        \A f \in NumberFields :
            Present(f) =>
                /\ ~ErrAt(Loc(f)) <=> InRange(f[2], ValueOf(f))
                /\ ~InRange(f[2], ValueOf(f)) => result.errors # {}

C5_Witness ==
    /\ result.done
    /\ Present(<<"top", "line_height">>) /\ style_data.line_height = 0
    /\ Present(<<"top", "font_size">>) /\ style_data.font_size = 500
    /\ result.errors = {Err(<<>>, "line_height", "range")}

SchemaKeys(obj) ==
    CASE obj = "top" -> StyleKeys
      [] obj = "fill" -> {"type", "color", "colors", "direction"}
      [] obj = "stroke" -> {"enabled", "width", "color"}
      [] obj \in Effects -> {"enabled", "offset", "blur", "color", "opacity"}

\* C6: a key outside the schema, at the top level or in fill, stroke,
\* shadow, outer_glow or inner_shadow, makes validation fail with an error
\* at that key, whatever the other fields hold.
C6_UnknownKeysRejected ==
    result.done =>
        \A obj \in Objects :
            HasObject(style_data, obj) =>
                \A k \in (DOMAIN ObjectOf(style_data, obj)) \ SchemaKeys(obj) :
                    /\ ErrAt(Loc(<<obj, k>>))
                    /\ result.errors # {}

C6_Witness ==
    /\ result.done
    /\ Present(<<"fill", "glow_radius">>)
    /\ result.errors = {Err(<<"fill">>, "glow_radius", "extra_forbidden")}

(***************************************************************************)
(* Gradient and codec.                                                     *)
(***************************************************************************)
Extent == IF direction = "vertical" THEN size[2] ELSE size[1]

\* the index of pixel p along the direction of the gradient
Along(p) == IF direction = "vertical" THEN p[1] ELSE p[2]

Color1 == hex_to_rgba(colors[1], FOne).value

Color2 == hex_to_rgba(colors[2], FOne).value

\* C7: the raster is width x height, and each channel of a pixel of row or
\* column i is (1 - i/N)*color1 + (i/N)*color2 truncated to an integer.
C7_LinearBlend ==
    gradient.done =>
        /\ gradient.ok /\ gradient.width = size[1] /\ gradient.height = size[2]
        /\ DOMAIN gradient.pixels = (0..(size[2] - 1)) \X (0..(size[1] - 1))
        /\ \A p \in DOMAIN gradient.pixels : \A ch \in 1..4 :
              gradient.pixels[p][ch] =
                  ((Extent - Along(p)) * Color1[ch] + Along(p) * Color2[ch]) \div Extent

\* C8 as stated: the first row or column is color1, and the last one differs
\* from color2 in every channel where color1 and color2 differ.
C8_LastNeverEqualsColor2 ==
    gradient.done =>
        \A p \in DOMAIN gradient.pixels :
            /\ Along(p) = 0 => gradient.pixels[p] = Color1
            /\ Along(p) = Extent - 1 =>
                  \A ch \in 1..4 :
                      Color1[ch] # Color2[ch] => gradient.pixels[p][ch] # Color2[ch]

\* C8: the first row or column is color1 exactly; in the last one, a channel
\* in which color2 is greater than color1 stays below color2, and a channel
\* in which color2 is less than color1 is not below color2 and equals it
\* when color1 exceeds color2 by less than N.
C8_FirstExactLastBelow ==
    gradient.done =>
        \A p \in DOMAIN gradient.pixels :
            /\ Along(p) = 0 => gradient.pixels[p] = Color1
            /\ Along(p) = Extent - 1 =>
                  \A ch \in 1..4 :
                      /\ Color2[ch] > Color1[ch] => gradient.pixels[p][ch] < Color2[ch]
                      /\ Color2[ch] < Color1[ch] =>
                            /\ gradient.pixels[p][ch] >= Color2[ch]
                            /\ Color1[ch] - Color2[ch] < Extent =>
                                  gradient.pixels[p][ch] = Color2[ch]

C8_Witness ==
    /\ gradient.done /\ direction = "vertical" /\ size = <<2, 3>>
    /\ colors = <<Navy, White>>
    /\ gradient.pixels[<<0, 1>>] = <<1, 0, 127, 255>>
    /\ gradient.pixels[<<2, 0>>][1] < 255 /\ gradient.pixels[<<2, 0>>][1] > 1

\* the integer nearest to n / d, a tie going to the even one (Python's round)
RoundHalfEven(n, d) ==
    LET q == n \div d
        r == n % d
    IN  IF 2 * r < d THEN q
        ELSE IF 2 * r > d THEN q + 1
        ELSE IF q % 2 = 0 THEN q ELSE q + 1

ByteOf(s, k) == 16 * HexDigitValue(s[k]) + HexDigitValue(s[k + 1])

\* C9 as stated: the channels are the three hex byte pairs and the alpha is
\* round(255 * opacity).
C9_AlphaRounded ==
    rgba.done =>
        /\ rgba.ok
        /\ rgba.value[1] = ByteOf(hex_color, 2)
        /\ rgba.value[2] = ByteOf(hex_color, 4)
        /\ rgba.value[3] = ByteOf(hex_color, 6)
        /\ rgba.value[4] = RoundHalfEven(255 * opacity[1], opacity[2])

\* C9: the channels are the three hex byte pairs, each in 0..255, and the
\* alpha is 255 * opacity truncated to an integer.
C9_AlphaTruncated ==
    rgba.done =>
        /\ rgba.ok
        /\ rgba.value[1] = ByteOf(hex_color, 2)
        /\ rgba.value[2] = ByteOf(hex_color, 4)
        /\ rgba.value[3] = ByteOf(hex_color, 6)
        /\ \A ch \in 1..4 : rgba.value[ch] \in 0..255
        /\ rgba.value[4] = (255 * opacity[1]) \div opacity[2]

C9_Witness ==
    /\ rgba.done /\ hex_color = Pink /\ opacity = <<1, 2>>
    /\ rgba.value = <<255, 0, 170, 127>>

(***************************************************************************)
(* Placement.                                                              *)
(***************************************************************************)
\* n / 2 truncated toward zero
TruncHalf(n) == IF n >= 0 THEN n \div 2 ELSE 0 - ((0 - n) \div 2)

Drawn == "measure" \in Range(steps)

BoxWidth == bbox[3] - bbox[1]

BoxHeight == bbox[4] - bbox[2]

====
